---- MODULE Spec2Model ----
(***************************************************************************)
(* A model of the recording validation interface:                          *)
(*   - recval/model.py: VersionedString (new, derive, show), Phrase        *)
(*     (update, histories), Recording.new, compute_fingerprint and         *)
(*     transcode_to_aac;                                                   *)
(*   - extraction-scripts/find_sessions.py: RecordingExtractor (scan,      *)
(*     extract_session) and PhraseExtractor (extract_all, extract_phrases).*)
(* Each part has a specification of its own: SpecVS, SpecAudio,            *)
(* SpecAudioSeq, SpecScan, SpecExtract.                                    *)
(***************************************************************************)
EXTENDS Integers, Sequences, FiniteSets, TLC

VARIABLES
    \* ---- recval/model.py: the versioned_string table and one Phrase
    nodes,      \* every VersionedString object made so far, in creation order
    phrase,     \* the Phrase: indices of its transcription_meta / translation_meta
    now,        \* the clock datetime.utcnow() reads, in half seconds
    hist,       \* the rows the last *_history query returned, in its order
    vsRaised,   \* the exception the last VersionedString / Phrase call raised
    \* ---- recval/model.py: Recording.new and the transcoded blob store
    wpc,        \* per worker: where it is inside Recording.new
    wcall,      \* per worker: the arguments and locals of its call
    blobs,      \* per fingerprint: how often <fingerprint>.mp4 was written
    ffmpegCalls,\* per fingerprint: how often ffmpeg was started for it
    recordings, \* the Recording objects returned so far, in order
    ncalls,     \* how many calls of Recording.new were begun
    \* ---- find_sessions.py: RecordingExtractor
    entries,    \* the entries of the root directory
    sessions,   \* RecordingExtractor.sessions: session -> directory
    visited,    \* the entries scan has taken from iterdir(), in order
    invoked,    \* the directories PhraseExtractor was constructed for
    scanpc,     \* "scanning", "done" or "raised"
    scanErr,    \* the exception that left scan
    \* ---- find_sessions.py: PhraseExtractor over one text grid
    grid,       \* the text grid: its tiers (name, intervals)
    xpc,        \* "start", "words", "between", "sentences", "done", "raised"
    xi,         \* index of the next interval of the loop that runs
    words,      \* the word clips exported so far
    sents,      \* the sentence clips exported so far
    xErr        \* the exception that left extract_all

vsVars    == <<nodes, phrase, now, hist, vsRaised>>
audioVars == <<wpc, wcall, blobs, ffmpegCalls, recordings, ncalls>>
scanVars  == <<entries, sessions, visited, invoked, scanpc, scanErr>>
exVars    == <<grid, xpc, xi, words, sents, xErr>>
vars      == <<vsVars, audioVars, scanVars, exVars>>

\* What an action of one part leaves alone: the other parts.
VSFrame    == UNCHANGED <<audioVars, scanVars, exVars>>
AudioFrame == UNCHANGED <<vsVars, scanVars, exVars>>
ScanFrame  == UNCHANGED <<vsVars, audioVars, exVars>>
ExFrame    == UNCHANGED <<vsVars, audioVars, scanVars>>

\* Python's None, for ids and references (ids are sequences of strings).
None == <<>>

\* The exception slot when nothing was raised.
NoError == "none"

(***************************************************************************)
(* Shared helpers                                                          *)
(***************************************************************************)

\* recval.normalization.normalize: strips the utterance and puts it in NFC.
\* The strings of the model are these; "e^" stands for the decomposed
\* spelling (letter + combining circumflex) of the letter written "E".
Normalize(s) ==
    CASE s = ""    -> ""
      [] s = " "   -> ""
      [] s = " a"  -> "a"
      [] s = "a "  -> "a"
      [] s = "e^"  -> "E"
      [] s = "w "  -> "w"
      [] s = "s "  -> "s"
      [] s = "g "  -> "g"
      [] OTHER     -> s

\* hashlib.sha256(...).hexdigest() of a serialization, as an ideal digest:
\* equal digests exactly for equal inputs.
Sha256(text) == <<"sha256">> \o text

(***************************************************************************)
(* recval/model.py: VersionedString                                        *)
(***************************************************************************)

MaxNodes == 3      \* VersionedString objects made in one behaviour
MaxClock == 2      \* last reading of the clock, in half seconds

\* Raw strings handed to new / derive / update.
Values == {"a", "a ", "b", " "}

\* Phrase.__init__ passes '<unknown>', the setters '<unknown author>'.
InitAuthor == "<unknown>"
SetterAuthor == "<unknown author>"
Authors == {InitAuthor, SetterAuthor}

\* f"{self.timestamp:%Y-%m-%dT%H:%M:%S%z}": the timestamp to the second.
\* The clock counts half seconds, so two readings share one second.
FormatDate(ts) == ToString(ts \div 2)

\* validate_value without its assertion: any utterance passes.
ValidateAnything(utterance) == Normalize(utterance) = Normalize(utterance)

\* VersionedString.validate_value: normalizes, asserts a non-empty result.
ValidateOk(utterance) == Normalize(utterance) # ""

\* VersionedString.show's generate(): the lines that are joined. It reads
\* the relationship attributes provenance / previous, not the *_id columns.
ShowLines(self) ==
    (IF self.provenance # None /\ self.provenance # self.id
        THEN <<"provenance">> \o self.provenance
        ELSE <<>>)
    \o (IF self.previous # None
        THEN <<"previous">> \o self.previous
        ELSE <<>>)
    \o <<"author", self.author_name,
         "date", FormatDate(self.timestamp),
         "", self.value>>

\* VersionedString.compute_sha256hash
ComputeSha256Hash(self) == Sha256(ShowLines(self))

\* cls(value=..., timestamp=..., author_name=...): a fresh transient object.
\* No column but these three is set and no relationship is loaded.
Construct(value, ts, author_name) ==
    [ id            |-> None,
      value         |-> Normalize(value),
      provenance_id |-> None,
      previous_id   |-> None,
      provenance    |-> None,
      previous      |-> None,
      author_name   |-> author_name,
      timestamp     |-> ts ]

\* VersionedString.new, when validate_value passes.
VSNew(value, author_name, ts) ==
    LET instance == Construct(Normalize(value), ts, author_name)
        withId   == [instance EXCEPT !.id = ComputeSha256Hash(instance)]
    IN  [withId EXCEPT !.provenance_id = withId.id]

\* derive that forgets to hand on the provenance of the node it derives from.
VSDeriveOwnProvenance(self, value, author_name, ts) ==
    LET instance == VSNew(value, author_name, ts)
        linked   == [instance EXCEPT !.previous_id = self.id]
    IN  [linked EXCEPT !.id = ComputeSha256Hash(linked)]

\* VersionedString.derive, when validate_value passes.
VSDerive(self, value, author_name, ts) ==
    LET instance == VSNew(value, author_name, ts)
        linked   == [instance EXCEPT !.previous_id = self.id,
                                     !.provenance_id = self.provenance_id]
    IN  [linked EXCEPT !.id = ComputeSha256Hash(linked)]

\* VersionedString.is_root
IsRoot(self) == self.id = self.provenance_id

\* An object of the model: the row, and the object derive was called on
\* (0 for an object made by new).
Obj(row, parent) == [row |-> row, parent |-> parent]

NoPhrase == [transcription_meta |-> 0, translation_meta |-> 0]
Fields == {"transcription", "translation"}

\* self.transcription_meta / self.translation_meta
Meta(field) ==
    IF field = "transcription" THEN phrase.transcription_meta
                               ELSE phrase.translation_meta

InitVS ==
    /\ nodes = <<>>
    /\ phrase = NoPhrase
    /\ now = 0
    /\ hist = <<>>
    /\ vsRaised = NoError

\* Time passes between two calls.
VSTick ==
    /\ now < MaxClock
    /\ now' = now + 1
    /\ UNCHANGED <<nodes, phrase, hist, vsRaised>>
    /\ VSFrame

\* A caller runs VersionedString.new(value, author_name).
CallNew(value, author_name) ==
    /\ Len(nodes) < MaxNodes
    /\ IF ValidateOk(Normalize(value))
          THEN /\ nodes' = Append(nodes, Obj(VSNew(value, author_name, now), 0))
               /\ vsRaised' = NoError
          ELSE /\ vsRaised' = "AssertionError"
               /\ UNCHANGED nodes
    /\ UNCHANGED <<phrase, now, hist>>
    /\ VSFrame

\* A caller runs nodes[i].derive(value, author_name).
CallDerive(i, value, author_name) ==
    /\ Len(nodes) < MaxNodes
    /\ i \in 1..Len(nodes)
    /\ IF ValidateOk(Normalize(value))
          THEN /\ nodes' = Append(nodes,
                      Obj(VSDerive(nodes[i].row, value, author_name, now), i))
               /\ vsRaised' = NoError
          ELSE /\ vsRaised' = "AssertionError"
               /\ UNCHANGED nodes
    /\ UNCHANGED <<phrase, now, hist>>
    /\ VSFrame

\* Phrase.__init__(transcription=..., translation=...)
PhraseInit(transcription, translation) ==
    /\ phrase = NoPhrase
    /\ Len(nodes) + 2 <= MaxNodes
    /\ IF ValidateOk(Normalize(transcription)) /\ ValidateOk(Normalize(translation))
          THEN /\ nodes' = nodes \o
                      << Obj(VSNew(transcription, InitAuthor, now), 0),
                         Obj(VSNew(translation, InitAuthor, now), 0) >>
               /\ phrase' = [transcription_meta |-> Len(nodes) + 1,
                             translation_meta   |-> Len(nodes) + 2]
               /\ vsRaised' = NoError
          ELSE /\ vsRaised' = "AssertionError"
               /\ UNCHANGED <<nodes, phrase>>
    /\ UNCHANGED <<now, hist>>
    /\ VSFrame

\* A setter that overwrites the value of the field's current node instead
\* of deriving a new node from it.
PhraseUpdateInPlace(field, value) ==
    /\ phrase # NoPhrase
    /\ nodes' = [nodes EXCEPT ![Meta(field)].row.value = Normalize(value)]
    /\ vsRaised' = NoError
    /\ UNCHANGED <<phrase, now, hist>>
    /\ VSFrame

\* Phrase.update(field, value): normalizes, then the field's setter derives
\* from the current node and rebinds the reference.
PhraseUpdate(field, value) ==
    /\ phrase # NoPhrase
    /\ Len(nodes) < MaxNodes
    /\ LET normalized_value == Normalize(value)
           previous == Meta(field)
       IN IF ValidateOk(normalized_value)
             THEN /\ nodes' = Append(nodes,
                         Obj(VSDerive(nodes[previous].row, normalized_value,
                                      SetterAuthor, now), previous))
                  /\ phrase' = IF field = "transcription"
                       THEN [phrase EXCEPT !.transcription_meta = Len(nodes) + 1]
                       ELSE [phrase EXCEPT !.translation_meta = Len(nodes) + 1]
                  /\ vsRaised' = NoError
             ELSE /\ vsRaised' = "AssertionError"
                  /\ UNCHANGED <<nodes, phrase>>
    /\ UNCHANGED <<now, hist>>
    /\ VSFrame

\* id is the primary key of versioned_string: the table holds one row per
\* id, the one inserted first.
Stored(i) == \A j \in 1..(i - 1) : nodes[j].row.id # nodes[i].row.id

\* The indices of the rows a filter_by(provenance_id=p) selects.
RowsWithProvenance(p) ==
    {i \in 1..Len(nodes) : Stored(i) /\ nodes[i].row.provenance_id = p}

\* Every order a set of rows can come back in.
Orderings(S) ==
    {s \in [1..Cardinality(S) -> S] : \A i, j \in 1..Cardinality(S) :
                                          i # j => s[i] # s[j]}

\* Query.all() with no ORDER BY: the rows, in an order the database picks.
QueryAll(S) == Orderings(S)

\* Phrase.transcription_history / Phrase.translation_history
PhraseHistory(field) ==
    /\ phrase # NoPhrase
    /\ \E result \in QueryAll(RowsWithProvenance(nodes[Meta(field)].row.provenance_id)) :
          hist' = result
    /\ vsRaised' = NoError
    /\ UNCHANGED <<nodes, phrase, now>>
    /\ VSFrame

NextVS ==
    \/ VSTick
    \/ \E value \in Values, author_name \in Authors : CallNew(value, author_name)
    \/ \E i \in 1..MaxNodes, value \in Values, author_name \in Authors :
          CallDerive(i, value, author_name)
    \/ \E transcription \in Values, translation \in Values :
          PhraseInit(transcription, translation)
    \/ \E field \in Fields, value \in Values : PhraseUpdate(field, value)
    \/ \E field \in Fields : PhraseHistory(field)

(***************************************************************************)
(* recval/model.py: Recording.new, compute_fingerprint, transcode_to_aac   *)
(***************************************************************************)

MaxCalls == 3      \* calls of Recording.new in one behaviour

Workers == {"w1", "w2"}
PhraseIds == {1, 2}

\* The input paths of the model: two files with the same bytes, one with
\* other bytes, one that is no .wav file, one that does not exist.
Paths == {"x.wav", "y.wav", "z.wav", "m.mp3", "gone.wav"}
PathExists(path) == path # "gone.wav"
Suffix(path) == IF path = "m.mp3" THEN ".mp3" ELSE ".wav"
Bytes(path) == IF path = "z.wav" THEN <<"bytes-B">> ELSE <<"bytes-A">>

\* compute_fingerprint, past its assertion on the suffix.
ComputeFingerprint(path) == Sha256(Bytes(path))

\* Every fingerprint of the model, and the values of the fingerprint argument.
Fingerprints == {Sha256(<<"bytes-A">>), Sha256(<<"bytes-B">>)}
FingerprintArgs == {None, Sha256(<<"bytes-B">>)}

IdleCall == [phrase_id |-> 0, path |-> "", fingerprint |-> None,
             supplied |-> FALSE, raised |-> NoError]

\* out_filename.exists() in the transcoded recordings directory
BlobExists(fingerprint) == blobs[fingerprint] > 0

\* transcode_to_aac without its test: it never skips.
NeverSkips(fingerprint) == FALSE

\* transcode_to_aac's test before it starts ffmpeg: TRUE to skip.
AlreadyTranscoded(fingerprint) == BlobExists(fingerprint)

InitAudio ==
    /\ wpc = [w \in Workers |-> "idle"]
    /\ wcall = [w \in Workers |-> IdleCall]
    /\ blobs = [f \in Fingerprints |-> 0]
    /\ ffmpegCalls = [f \in Fingerprints |-> 0]
    /\ recordings = <<>>
    /\ ncalls = 0

\* Recording.new up to the call of transcode_to_aac: the assertion that the
\* input exists and, with no fingerprint given, compute_fingerprint.
RecBegin(w, phrase_id, path, fingerprint) ==
    /\ wpc[w] = "idle"
    /\ ncalls < MaxCalls
    /\ ncalls' = ncalls + 1
    /\ LET call == [phrase_id |-> phrase_id, path |-> path,
                    fingerprint |-> fingerprint,
                    supplied |-> fingerprint # None, raised |-> NoError]
       IN  IF ~PathExists(path)
              THEN /\ wcall' = [wcall EXCEPT ![w] =
                                   [call EXCEPT !.raised = "AssertionError"]]
                   /\ UNCHANGED wpc
           ELSE IF fingerprint # None
              THEN /\ wcall' = [wcall EXCEPT ![w] = call]
                   /\ wpc' = [wpc EXCEPT ![w] = "return"]
           ELSE IF Suffix(path) # ".wav"
              THEN /\ wcall' = [wcall EXCEPT ![w] =
                                   [call EXCEPT !.raised = "AssertionError"]]
                   /\ UNCHANGED wpc
           ELSE /\ wcall' = [wcall EXCEPT ![w] =
                       [call EXCEPT !.fingerprint = ComputeFingerprint(path)]]
                /\ wpc' = [wpc EXCEPT ![w] = "check"]
    /\ UNCHANGED <<blobs, ffmpegCalls, recordings>>
    /\ AudioFrame

\* transcode_to_aac up to its test of out_filename.exists()
RecCheck(w) ==
    /\ wpc[w] = "check"
    /\ wpc' = [wpc EXCEPT ![w] =
                 IF AlreadyTranscoded(wcall[w].fingerprint) THEN "return"
                                                            ELSE "ffmpeg"]
    /\ UNCHANGED <<wcall, blobs, ffmpegCalls, recordings, ncalls>>
    /\ AudioFrame

\* transcode_to_aac's run of ffmpeg -n: it writes <fingerprint>.mp4, or
\* exits with an error when that file exists by now (sh then raises).
RecFfmpeg(w) ==
    /\ wpc[w] = "ffmpeg"
    /\ LET f == wcall[w].fingerprint
       IN  /\ ffmpegCalls' = [ffmpegCalls EXCEPT ![f] = @ + 1]
           /\ IF BlobExists(f)
                 THEN /\ wcall' = [wcall EXCEPT ![w].raised = "ErrorReturnCode"]
                      /\ wpc' = [wpc EXCEPT ![w] = "idle"]
                      /\ UNCHANGED blobs
                 ELSE /\ blobs' = [blobs EXCEPT ![f] = @ + 1]
                      /\ wpc' = [wpc EXCEPT ![w] = "return"]
                      /\ UNCHANGED wcall
    /\ UNCHANGED <<recordings, ncalls>>
    /\ AudioFrame

\* return cls(fingerprint=fingerprint, phrase=phrase, speaker=speaker)
RecReturn(w) ==
    /\ wpc[w] = "return"
    /\ recordings' = Append(recordings,
           [fingerprint |-> wcall[w].fingerprint,
            phrase_id   |-> wcall[w].phrase_id,
            path        |-> wcall[w].path,
            supplied    |-> wcall[w].supplied])
    /\ wpc' = [wpc EXCEPT ![w] = "idle"]
    /\ wcall' = [wcall EXCEPT ![w] = IdleCall]
    /\ UNCHANGED <<blobs, ffmpegCalls, ncalls>>
    /\ AudioFrame

\* Workers that run Recording.new at the same time.
NextAudio ==
    \E w \in Workers :
        \/ \E phrase_id \in PhraseIds, path \in Paths,
              fingerprint \in FingerprintArgs :
                RecBegin(w, phrase_id, path, fingerprint)
        \/ RecCheck(w)
        \/ RecFfmpeg(w)
        \/ RecReturn(w)

\* Recording.new begun while no other call is running.
RecBeginAlone(w, phrase_id, path, fingerprint) ==
    /\ \A v \in Workers : wpc[v] = "idle"
    /\ RecBegin(w, phrase_id, path, fingerprint)

\* One call of Recording.new after the other.
NextAudioSeq ==
    \E w \in Workers :
        \/ \E phrase_id \in PhraseIds, path \in Paths,
              fingerprint \in FingerprintArgs :
                RecBeginAlone(w, phrase_id, path, fingerprint)
        \/ RecCheck(w)
        \/ RecFfmpeg(w)
        \/ RecReturn(w)

(***************************************************************************)
(* find_sessions.py: PhraseExtractor                                       *)
(***************************************************************************)

MaxTick == 2       \* interval bounds lie on the points 0..MaxTick

WORD_TIER_ENGLISH == 1      \* tiers[0]
WORD_TIER_CREE == 2         \* tiers[1]
SENTENCE_TIER_ENGLISH == 3  \* tiers[2]
SENTENCE_TIER_CREE == 4     \* tiers[3]

\* Times are Decimal seconds, held as a whole number of quarter milliseconds.
\* The points interval bounds are drawn from are 1.5 ms apart, so that a
\* bound can fall inside a millisecond and a midpoint is a whole number.
TimePoints == {6 * k : k \in 0..MaxTick}

\* to_milliseconds: int(seconds * 1000)
ToMilliseconds(t) == t \div 4

\* (interval.minTime + interval.maxTime) / 2
Midtime(interval) == (interval.minTime + interval.maxTime) \div 2

\* str.strip() on the labels of the model
Strip(mark) ==
    CASE mark = " "  -> ""
      [] mark = "w " -> "w"
      [] mark = "s " -> "s"
      [] mark = "g " -> "g"
      [] OTHER       -> mark

\* not interval.mark or interval.mark.strip() == ''
IsBlank(mark) == mark = "" \/ Strip(mark) = ""

\* cree_pattern / english_pattern .search(tier.name) on the names of the model
IsCreeTier(tier) == tier.name \in {"Cree Words", "Cree Sentences", "crk"}
IsEnglishTier(tier) == tier.name \in {"English Words", "English Sentences", "en"}

\* IntervalTier.intervalContaining of the textgrid library: the index of the
\* interval whose bounds [minTime, maxTime) hold the time, 0 for None.
IntervalContaining(intervals, t) ==
    LET hits == {k \in 1..Len(intervals) :
                    intervals[k].minTime <= t /\ t < intervals[k].maxTime}
    IN  IF hits = {} THEN 0
        ELSE CHOOSE k \in hits : \A m \in hits : k <= m

\* PhraseExtractor.timestamp_within_sentence, for a grid with a tier 3:
\* sentence and sentence.mark != ''
TimestampWithinSentence(g, t) ==
    LET sentences == g.tiers[SENTENCE_TIER_CREE].intervals
        k == IntervalContaining(sentences, t)
    IN  k # 0 /\ sentences[k].mark # ""

\* The clip one loop iteration exports.
Clip(type, interval, translation) ==
    [ type          |-> type,
      transcription |-> Normalize(interval.mark),
      translation   |-> translation,
      start         |-> ToMilliseconds(interval.minTime),
      end           |-> ToMilliseconds(interval.maxTime) ]

\* The state of one run of extract_all.
XState(pc, i, ws, ss, err) ==
    [pc |-> pc, i |-> i, words |-> ws, sents |-> ss, err |-> err]

XRaise(st, err) == [st EXCEPT !.pc = "raised", !.err = err]

\* extract_all up to the first iteration of extract_phrases' loop: the
\* assertion on the number of tiers and extract_phrases' two assertions.
XBegin(g, st) ==
    IF Len(g.tiers) < 2
        THEN XRaise(st, "AssertionError: TextGrid has too few tiers")
    ELSE IF ~IsCreeTier(g.tiers[WORD_TIER_CREE])
        THEN XRaise(st, "AssertionError: cree_tier.name")
    ELSE IF ~IsEnglishTier(g.tiers[WORD_TIER_ENGLISH])
        THEN XRaise(st, "AssertionError: english_tier.name")
    ELSE [st EXCEPT !.pc = "words", !.i = 1]

\* One iteration of the loop of extract_phrases('word', ...).
XWord(g, st) ==
    LET cree_tier == g.tiers[WORD_TIER_CREE].intervals
        english_tier == g.tiers[WORD_TIER_ENGLISH].intervals
        interval == cree_tier[st.i]
        midtime == Midtime(interval)
        e == IntervalContaining(english_tier, midtime)
        next == [st EXCEPT !.i = st.i + 1]
    IN  IF IsBlank(interval.mark) THEN next
        ELSE IF Len(g.tiers) < SENTENCE_TIER_CREE
            THEN XRaise(st, "IndexError")
        ELSE IF TimestampWithinSentence(g, midtime) THEN next
        ELSE IF e = 0 THEN XRaise(st, "AttributeError")
        ELSE [next EXCEPT !.words =
                 Append(st.words,
                        Clip("word", interval, Normalize(english_tier[e].mark)))]

\* extract_all between the two loops: tiers[3] and the two assertions.
XBetween(g, st) ==
    IF ~IsEnglishTier(g.tiers[WORD_TIER_ENGLISH])
        THEN XRaise(st, "AssertionError")
    ELSE IF Len(g.tiers) < SENTENCE_TIER_CREE
        THEN XRaise(st, "IndexError")
    ELSE IF ~IsCreeTier(g.tiers[SENTENCE_TIER_CREE])
        THEN XRaise(st, "AssertionError")
    ELSE [st EXCEPT !.pc = "sentences", !.i = 1]

\* One iteration of extract_all's loop over the Cree sentence tier.
XSentence(g, st) ==
    LET cree_sentence_intervals == g.tiers[SENTENCE_TIER_CREE].intervals
        english_word_intervals == g.tiers[WORD_TIER_ENGLISH].intervals
        interval == cree_sentence_intervals[st.i]
        midtime == Midtime(interval)
        e == IntervalContaining(english_word_intervals, midtime)
        next == [st EXCEPT !.i = st.i + 1]
    IN  IF IsBlank(interval.mark) THEN next
        ELSE IF e = 0 THEN XRaise(st, "AttributeError")
        ELSE [next EXCEPT !.sents =
                 Append(st.sents,
                        Clip("sentence", interval,
                             Normalize(english_word_intervals[e].mark)))]

\* The step extract_all takes next, and whether it has one.
XRunning(st) == st.pc \notin {"done", "raised"}

XStep(g, st) ==
    CASE st.pc = "start" -> XBegin(g, st)
      [] st.pc = "words" ->
            IF st.i > Len(g.tiers[WORD_TIER_CREE].intervals)
                THEN [st EXCEPT !.pc = "between"]
                ELSE XWord(g, st)
      [] st.pc = "between" -> XBetween(g, st)
      [] st.pc = "sentences" ->
            IF st.i > Len(g.tiers[SENTENCE_TIER_CREE].intervals)
                THEN [st EXCEPT !.pc = "done"]
                ELSE XSentence(g, st)
      [] OTHER -> st

XInitial == XState("start", 0, <<>>, <<>>, NoError)

\* extract_all from its first line to its return or its exception.
RECURSIVE XRunFrom(_, _)
XRunFrom(g, st) == IF XRunning(st) THEN XRunFrom(g, XStep(g, st)) ELSE st
ExtractAll(g) == XRunFrom(g, XInitial)

\* ---- the text grids of the model

Interval(minTime, maxTime, mark) ==
    [minTime |-> minTime, maxTime |-> maxTime, mark |-> mark]

IntervalsOver(marks) ==
    {Interval(a, b, m) : a \in TimePoints, b \in TimePoints, m \in marks}

\* The tiers a text grid can hold: intervals in time order that do not
\* overlap, each of positive length.
TiersOver(marks) ==
    UNION { {t \in [1..n -> IntervalsOver(marks)] :
                /\ \A k \in 1..n : t[k].minTime < t[k].maxTime
                /\ \A k \in 1..(n - 1) : t[k].maxTime <= t[k + 1].minTime}
            : n \in 0..MaxTick }

CreeWordTiers == TiersOver({" ", "w "})
CreeSentenceTiers == TiersOver({"", " ", "s "})
EnglishWordTiers == TiersOver({"g "})

Tier(name, intervals) == [name |-> name, intervals |-> intervals]

\* The tier names of a grid, by position.
TierNames ==
    { <<"English Words", "Cree Words", "English Sentences", "Cree Sentences">>,
      <<"English Words", "Cree Words", "English Sentences", "Sentences">>,
      <<"English Words", "Words", "English Sentences", "Cree Sentences">>,
      <<"Gloss", "Cree Words", "English Sentences", "Cree Sentences">>,
      <<"English Words", "Cree Words", "English Sentences">>,
      <<"English Words">> }

\* The English sentence tier is never read: it is left empty.
TiersOf(names, english, cree, sentences) ==
    LET all == << Tier("", english), Tier("", cree),
                  Tier("", <<>>), Tier("", sentences) >>
    IN  [k \in 1..Len(names) |-> [all[k] EXCEPT !.name = names[k]]]

Grids ==
    { [tiers |-> TiersOf(names, english, cree, sentences)] :
        names \in TierNames, english \in EnglishWordTiers,
        cree \in CreeWordTiers, sentences \in CreeSentenceTiers }

InitExtract ==
    /\ grid \in Grids
    /\ xpc = "start"
    /\ xi = 0
    /\ words = <<>>
    /\ sents = <<>>
    /\ xErr = NoError

XNow == XState(xpc, xi, words, sents, xErr)

XSet(st) ==
    /\ xpc' = st.pc
    /\ xi' = st.i
    /\ words' = st.words
    /\ sents' = st.sents
    /\ xErr' = st.err
    /\ UNCHANGED grid

\* extract_all: its assertions before the word loop
ExtractBegin == xpc = "start" /\ XSet(XStep(grid, XNow)) /\ ExFrame

\* extract_phrases: one iteration of the word loop, or its end
ExtractWord == xpc = "words" /\ XSet(XStep(grid, XNow)) /\ ExFrame

\* extract_all: the tier lookups and assertions before the sentence loop
ExtractBetween == xpc = "between" /\ XSet(XStep(grid, XNow)) /\ ExFrame

\* extract_all: one iteration of the sentence loop, or its end
ExtractSentence == xpc = "sentences" /\ XSet(XStep(grid, XNow)) /\ ExFrame

NextExtract ==
    \/ ExtractBegin
    \/ ExtractWord
    \/ ExtractBetween
    \/ ExtractSentence

(***************************************************************************)
(* find_sessions.py: RecordingExtractor                                    *)
(***************************************************************************)

\* The entries the root directory can hold.
SessionDirNames == {"2015-05-05am", "2015-05-05am.bak", "2015-05-06pm"}
FileNames == {"speaker-codes.csv"}
EntryNames == SessionDirNames \cup FileNames

\* Path.stem: the name without its last suffix.
Stem(name) ==
    CASE name = "2015-05-05am.bak"  -> "2015-05-05am"
      [] name = "speaker-codes.csv" -> "speaker-codes"
      [] OTHER                      -> name

\* RecordingSession.from_name: a date and a time-of-day code.
FromName(stem) ==
    CASE stem = "2015-05-05am" -> [date |-> "2015-05-05", time_of_day |-> "am"]
      [] stem = "2015-05-06pm" -> [date |-> "2015-05-06", time_of_day |-> "pm"]

\* Three text grids a session directory can hold: one that extracts, one
\* whose word has no English interval at its midpoint, one whose tier 3 is
\* not named as a Cree tier.
GoodGrid ==
    [tiers |-> TiersOf(
        <<"English Words", "Cree Words", "English Sentences", "Cree Sentences">>,
        <<Interval(0, 12, "g ")>>, <<Interval(0, 6, "w ")>>,
        <<Interval(6, 12, "s ")>>)]
GapGrid ==
    [tiers |-> TiersOf(
        <<"English Words", "Cree Words", "English Sentences", "Cree Sentences">>,
        <<>>, <<Interval(0, 6, "w ")>>, <<>>)]
BadNameGrid ==
    [tiers |-> TiersOf(
        <<"English Words", "Cree Words", "English Sentences", "Sentences">>,
        <<Interval(0, 12, "g ")>>, <<Interval(0, 6, "w ")>>,
        <<Interval(6, 12, "s ")>>)]

\* A *.TextGrid file of a directory: whether its .wav exists, and its grid.
GridFile(wav, g) == [wav |-> wav, grid |-> g]

\* What session_dir.glob('*.TextGrid') can list.
DirContents ==
    { <<>>,
      <<GridFile(TRUE, GoodGrid)>>,
      <<GridFile(FALSE, GoodGrid)>>,
      <<GridFile(TRUE, GapGrid)>>,
      <<GridFile(TRUE, GoodGrid), GridFile(TRUE, BadNameGrid)>> }

Absent == [kind |-> "absent", text_grids |-> <<>>]
PlainFile == [kind |-> "file", text_grids |-> <<>>]
Directory(text_grids) == [kind |-> "dir", text_grids |-> text_grids]

InitScan ==
    /\ entries \in
         { e \in [EntryNames -> {Absent, PlainFile}
                                 \cup {Directory(c) : c \in DirContents}] :
             /\ \A n \in SessionDirNames : e[n].kind # "file"
             /\ \A n \in FileNames : e[n].kind # "dir" }
    /\ sessions = <<>>
    /\ visited = <<>>
    /\ invoked = {}
    /\ scanpc = "scanning"
    /\ scanErr = NoError

\* The loop of extract_session over the text grids from the k-th on: the
\* grids a PhraseExtractor was made for, and the exception that ended it.
RECURSIVE ExtractGrids(_, _, _)
ExtractGrids(text_grids, k, made) ==
    IF k > Len(text_grids) THEN [made |-> made, err |-> NoError]
    ELSE IF ~text_grids[k].wav THEN ExtractGrids(text_grids, k + 1, made)
    ELSE LET out == ExtractAll(text_grids[k].grid)
         IN  IF out.pc = "raised"
                THEN [made |-> made \cup {k}, err |-> out.err]
                ELSE ExtractGrids(text_grids, k + 1, made \cup {k})

\* RecordingExtractor.extract_session
ExtractSession(session_dir) ==
    LET session == FromName(Stem(session_dir))
        out == ExtractGrids(entries[session_dir].text_grids, 1, {})
    IN  IF session \in DOMAIN sessions
           THEN /\ scanpc' = "raised"
                /\ scanErr' = "RuntimeError: Duplicate session"
                /\ UNCHANGED <<sessions, invoked>>
           ELSE /\ invoked' = invoked \cup {<<session_dir, k>> : k \in out.made}
                /\ scanErr' = out.err
                /\ scanpc' = IF out.err = NoError THEN scanpc ELSE "raised"
                /\ UNCHANGED sessions

Visited == {visited[k] : k \in 1..Len(visited)}

\* One iteration of scan's loop over root_directory.iterdir(), which lists
\* the entries in an order of its own.
ScanEntry(session_dir) ==
    /\ scanpc = "scanning"
    /\ entries[session_dir].kind # "absent"
    /\ session_dir \notin Visited
    /\ visited' = Append(visited, session_dir)
    /\ IF entries[session_dir].kind # "dir"
          THEN UNCHANGED <<sessions, invoked, scanpc, scanErr>>
          ELSE ExtractSession(session_dir)
    /\ UNCHANGED entries
    /\ ScanFrame

\* scan returns when iterdir() is exhausted.
ScanReturn ==
    /\ scanpc = "scanning"
    /\ \A n \in EntryNames : entries[n].kind # "absent" => n \in Visited
    /\ scanpc' = "done"
    /\ UNCHANGED <<entries, sessions, visited, invoked, scanErr>>
    /\ ScanFrame

NextScan ==
    \/ \E session_dir \in EntryNames : ScanEntry(session_dir)
    \/ ScanReturn


(***************************************************************************)
(* Specifications                                                          *)
(***************************************************************************)

\* The parts that a specification leaves out rest in these states.
IdleVS ==
    /\ nodes = <<>> /\ phrase = NoPhrase /\ now = 0
    /\ hist = <<>> /\ vsRaised = NoError
IdleAudio ==
    /\ wpc = [w \in Workers |-> "idle"]
    /\ wcall = [w \in Workers |-> IdleCall]
    /\ blobs = [f \in Fingerprints |-> 0]
    /\ ffmpegCalls = [f \in Fingerprints |-> 0]
    /\ recordings = <<>> /\ ncalls = 0
IdleScan ==
    /\ entries = [n \in EntryNames |-> Absent]
    /\ sessions = <<>> /\ visited = <<>> /\ invoked = {}
    /\ scanpc = "done" /\ scanErr = NoError
IdleExtract ==
    /\ grid = GoodGrid /\ xpc = "done" /\ xi = 0
    /\ words = <<>> /\ sents = <<>> /\ xErr = NoError

\* VersionedString and Phrase
InitSpecVS == InitVS /\ IdleAudio /\ IdleScan /\ IdleExtract
SpecVS == InitSpecVS /\ [][NextVS]_vars

\* Recording.new, by workers that run at the same time
InitSpecAudio == InitAudio /\ IdleVS /\ IdleScan /\ IdleExtract
SpecAudio == InitSpecAudio /\ [][NextAudio]_vars

\* Recording.new, one call after the other
SpecAudioSeq == InitSpecAudio /\ [][NextAudioSeq]_vars

\* RecordingExtractor.scan over one root directory
InitSpecScan == InitScan /\ IdleVS /\ IdleAudio /\ IdleExtract
SpecScan == InitSpecScan /\ [][NextScan]_vars

\* PhraseExtractor.extract_all over one text grid
InitSpecExtract == InitExtract /\ IdleVS /\ IdleAudio /\ IdleScan
SpecExtract == InitSpecExtract /\ [][NextExtract]_vars

(***************************************************************************)
(* Claims about VersionedString and Phrase (SpecVS)                        *)
(***************************************************************************)

\* The object a chain of derive calls started from.
RECURSIVE RootOf(_)
RootOf(i) == IF nodes[i].parent = 0 THEN i ELSE RootOf(nodes[i].parent)

\* The objects derive was called on, back to the root, to make object i.
RECURSIVE Ancestors(_)
Ancestors(i) ==
    IF nodes[i].parent = 0 THEN {}
    ELSE {nodes[i].parent} \cup Ancestors(nodes[i].parent)

\* C4: new returns a root with provenance_id = id and no previous_id; n.derive
\* returns a node with previous_id = n.id and provenance_id = n.provenance_id,
\* so every node of a chain carries the id of the chain's root as provenance_id.
C4_ProvenanceThreaded ==
    \A i \in 1..Len(nodes) :
        LET row == nodes[i].row
            parent == nodes[i].parent
        IN  /\ parent = 0 =>
                /\ row.provenance_id = row.id
                /\ row.previous_id = None
            /\ parent # 0 =>
                /\ row.previous_id = nodes[parent].row.id
                /\ row.provenance_id = nodes[parent].row.provenance_id
            /\ row.provenance_id = nodes[RootOf(i)].row.id

\* A node derived from a derived node exists.
C4_Witness ==
    \E i \in 1..Len(nodes) :
        /\ nodes[i].parent # 0
        /\ nodes[nodes[i].parent].parent # 0

\* The serialization the id is documented to be the digest of.
CanonicalLines(i) ==
    LET row == nodes[i].row
    IN  (IF nodes[i].parent # 0
            THEN <<"provenance">> \o row.provenance_id ELSE <<>>)
        \o (IF row.previous_id # None
            THEN <<"previous">> \o row.previous_id ELSE <<>>)
        \o <<"author", row.author_name,
             "date", FormatDate(row.timestamp),
             "", row.value>>

\* C5: the id of every node is the SHA-256 of the serialization of its
\* provenance_id (when not a root), its previous_id (when present), author,
\* timestamp and value, so a derived node's id depends on both links.
C5_IdIsDigestOfCanonicalForm ==
    \A i \in 1..Len(nodes) : nodes[i].row.id = Sha256(CanonicalLines(i))

\* The ids the rows with this id name as their previous_id.
PrevIds(id) ==
    {nodes[j].row.previous_id :
        j \in {k \in 1..Len(nodes) : /\ nodes[k].row.id = id
                                     /\ nodes[k].row.previous_id # None}}

\* The ids reached from the ids of S in at most k previous_id steps.
RECURSIVE ReachK(_, _)
ReachK(S, k) ==
    IF k = 0 THEN S
    ELSE ReachK(S \cup UNION {PrevIds(x) : x \in S}, k - 1)

\* C6: following previous_id from any node reaches the root whose id is the
\* node's provenance_id and never comes back to the node: no node is its own
\* previous and no chain of previous_id links is cyclic.
C6_ChainAcyclic ==
    \A i \in 1..Len(nodes) :
        LET row == nodes[i].row
            before == ReachK(PrevIds(row.id), Len(nodes))
        IN  /\ row.previous_id # row.id
            /\ row.id \notin before
            /\ row.provenance_id \in before \cup {row.id}

\* C7: a derived node's id differs from the id of every prior node of its
\* chain, also when value, author and timestamp second are those of its
\* predecessor.
C7_DeriveGivesFreshId ==
    \A i \in 1..Len(nodes) :
        \A j \in Ancestors(i) : nodes[i].row.id # nodes[j].row.id

\* C8: a history is the rows of one provenance_id, oldest first: the root
\* first, every other row right after the row its previous_id names.
C8_HistoryOldestFirst ==
    hist # <<>> =>
        /\ nodes[hist[1]].row.previous_id = None
        /\ \A k \in 2..Len(hist) :
              nodes[hist[k]].row.previous_id = nodes[hist[k - 1]].row.id

(***************************************************************************)
(* Claims about Recording.new (SpecAudioSeq, SpecAudio)                    *)
(***************************************************************************)

AllIdle == \A w \in Workers : wpc[w] = "idle"

\* The recordings returned by calls that were given no fingerprint.
Fingerprinted ==
    {k \in 1..Len(recordings) : ~recordings[k].supplied}

\* C2: after any sequence of Recording.new calls with no fingerprint given,
\* the blob store holds exactly one blob per distinct content, each written
\* once, and ffmpeg was started at most once per fingerprint.
C2_OneBlobPerContent ==
    /\ \A f \in Fingerprints : ffmpegCalls[f] <= 1 /\ blobs[f] <= 1
    /\ AllIdle =>
          {f \in Fingerprints : BlobExists(f)}
            = {Sha256(Bytes(recordings[k].path)) : k \in Fingerprinted}

\* Two calls on byte-identical files with different paths have returned.
C2_Witness ==
    /\ AllIdle
    /\ \E j, k \in Fingerprinted :
          /\ j < k
          /\ recordings[j].path # recordings[k].path
          /\ Bytes(recordings[j].path) = Bytes(recordings[k].path)

\* C3: with workers that store the same fingerprint at the same time, the
\* test for the blob and its write are one atomic step: never have two
\* workers both passed the test, and ffmpeg is never started twice for one
\* fingerprint.
C3_CheckThenWriteAtomic ==
    /\ \A f \in Fingerprints : ffmpegCalls[f] <= 1
    /\ \A w, v \in Workers :
          (w # v /\ wpc[w] = "ffmpeg" /\ wpc[v] = "ffmpeg")
              => wcall[w].fingerprint # wcall[v].fingerprint

(***************************************************************************)
(* Claims about RecordingExtractor (SpecScan)                              *)
(***************************************************************************)

IsDir(n) == entries[n].kind = "dir"

\* C1: when two session directories parse to the same session, extract_session
\* on the second raises 'Duplicate session' and no PhraseExtractor is made for
\* the second, whatever the order of the visits.
C1_DuplicateSessionRaises ==
    \A j, k \in 1..Len(visited) :
        ( /\ j < k
          /\ IsDir(visited[j]) /\ IsDir(visited[k])
          /\ FromName(Stem(visited[j])) = FromName(Stem(visited[k])) )
        => /\ scanpc = "raised"
           /\ scanErr = "RuntimeError: Duplicate session"
           /\ \A g \in invoked : g[1] # visited[k]

(***************************************************************************)
(* Claims about PhraseExtractor (SpecExtract)                              *)
(***************************************************************************)

\* A grid of four tiers whose names match their positions.
WellNamed ==
    /\ Len(grid.tiers) = 4
    /\ IsEnglishTier(grid.tiers[WORD_TIER_ENGLISH])
    /\ IsCreeTier(grid.tiers[WORD_TIER_CREE])
    /\ IsCreeTier(grid.tiers[SENTENCE_TIER_CREE])

XEnded == xpc \in {"done", "raised"}

CreeWords == grid.tiers[WORD_TIER_CREE].intervals
CreeSentences == grid.tiers[SENTENCE_TIER_CREE].intervals
EnglishWords == grid.tiers[WORD_TIER_ENGLISH].intervals

\* A clip of this list was cut from this interval.
Exported(clips, interval) ==
    \E c \in 1..Len(clips) :
        /\ clips[c].start = ToMilliseconds(interval.minTime)
        /\ clips[c].end = ToMilliseconds(interval.maxTime)

\* The sentence interval that holds the midpoint of the word, 0 for none.
SentenceOf(word) == IntervalContaining(CreeSentences, Midtime(word))

\* C9: a Cree word interval whose midpoint lies in a Cree sentence interval
\* with a non-blank label is never exported as a word, and the sentence pass
\* of the same run exports a sentence with that interval's truncated bounds.
C9_WordInSentenceGoesToSentencePass ==
    WellNamed =>
        \A w \in 1..Len(CreeWords) :
            LET s == SentenceOf(CreeWords[w])
            IN  (s # 0 /\ ~IsBlank(CreeSentences[s].mark)) =>
                    /\ ~Exported(words, CreeWords[w])
                    /\ XEnded => Exported(sents, CreeSentences[s])

\* The interval has a label, and no English word interval holds its midpoint.
NoGloss(interval) ==
    /\ ~IsBlank(interval.mark)
    /\ IntervalContaining(EnglishWords, Midtime(interval)) = 0

\* A clip with an empty translation was cut from this interval.
ExportedUntranslated(clips, interval) ==
    \E c \in 1..Len(clips) :
        /\ clips[c].start = ToMilliseconds(interval.minTime)
        /\ clips[c].end = ToMilliseconds(interval.maxTime)
        /\ clips[c].translation = ""

\* C10: a labelled Cree word (not left to the sentence pass) or sentence with
\* no English word interval at its midpoint does not make extraction fail:
\* the run ends normally, having exported it with an empty translation.
C10_MissingGlossIsSoft ==
    WellNamed =>
        /\ xpc # "raised"
        /\ xpc = "done" =>
              /\ \A w \in 1..Len(CreeWords) :
                    ( /\ NoGloss(CreeWords[w])
                      /\ ~TimestampWithinSentence(grid, Midtime(CreeWords[w])) )
                    => ExportedUntranslated(words, CreeWords[w])
              /\ \A s \in 1..Len(CreeSentences) :
                    NoGloss(CreeSentences[s])
                    => ExportedUntranslated(sents, CreeSentences[s])

\* The call of this step raised and left every node and the Phrase alone.
Rejected ==
    /\ vsRaised' = "AssertionError"
    /\ nodes' = nodes
    /\ phrase' = phrase

\* The raw strings that are empty after normalization.
EmptyValues == {value \in Values : Normalize(value) = ""}

\* C11: a call of new, derive, Phrase(...) or Phrase.update (the setters)
\* whose value is empty after normalization raises and creates no node, and
\* the Phrase keeps the references it had before the call; no node ever
\* holds an empty value.
C11_EmptyValueRejected ==
    [][ /\ \A i \in 1..Len(nodes') : nodes'[i].row.value # ""
        /\ \A value \in EmptyValues, author_name \in Authors :
              CallNew(value, author_name) => Rejected
        /\ \A i \in 1..Len(nodes), value \in EmptyValues, author_name \in Authors :
              CallDerive(i, value, author_name) => Rejected
        /\ \A empty \in EmptyValues, other \in Values :
              /\ PhraseInit(empty, other) => Rejected
              /\ PhraseInit(other, empty) => Rejected
        /\ \A field \in Fields, value \in EmptyValues :
              PhraseUpdate(field, value) => Rejected
      ]_vars

\* An update of an existing Phrase was just rejected: the Phrase still
\* references its two initial nodes, and no third node was made.
C11_Witness ==
    /\ vsRaised = "AssertionError"
    /\ phrase = [transcription_meta |-> 1, translation_meta |-> 2]
    /\ Len(nodes) = 2

\* C12: Recording.new is idempotent on (fingerprint, phrase_id): two calls
\* for the same audio content and the same phrase do not give a second
\* Recording for that fingerprint and phrase.
C12_OneRecordingPerFingerprintAndPhrase ==
    \A j \in Fingerprinted, k \in Fingerprinted :
        ( /\ Bytes(recordings[j].path) = Bytes(recordings[k].path)
          /\ recordings[j].phrase_id = recordings[k].phrase_id ) => j = k

(***************************************************************************)
(* Further claims about RecordingExtractor (SpecScan)                      *)
(***************************************************************************)

\* The failures of one session: a duplicate session, a tier whose name does
\* not match its position (the assertions of extract_phrases carry the name,
\* those of extract_all carry nothing), a text grid with too few tiers.
SessionFailures ==
    { "RuntimeError: Duplicate session",
      "AssertionError",
      "AssertionError: cree_tier.name",
      "AssertionError: english_tier.name",
      "AssertionError: TextGrid has too few tiers" }

\* C13: a failure while extracting one session ends that session only:
\* when scan has ended after such a failure, it has taken every session
\* directory under the root.
C13_FailureAbortsOnlyThatSession ==
    (scanErr \in SessionFailures /\ scanpc \in {"done", "raised"}) =>
        \A n \in EntryNames : IsDir(n) => n \in Visited

(***************************************************************************)
(* Further claims about PhraseExtractor (SpecExtract)                      *)
(***************************************************************************)

\* The grid has a tier at the Cree sentence position, under a name that
\* does not match the Cree pattern.
SentenceTierMisnamed ==
    /\ Len(grid.tiers) >= SENTENCE_TIER_CREE
    /\ ~IsCreeTier(grid.tiers[SENTENCE_TIER_CREE])

\* C14: a tier taken by position is validated against its name pattern
\* before it is used: on a grid whose Cree sentence tier is misnamed,
\* extract_all exports no word clip, never enters the sentence loop, and
\* ends by raising.
C14_TierValidatedBeforeUse ==
    SentenceTierMisnamed =>
        /\ words = <<>>
        /\ sents = <<>>
        /\ xpc # "sentences"
        /\ xpc # "done"

(***************************************************************************)
(* Further claims about VersionedString and Phrase (SpecVS)                *)
(***************************************************************************)

\* The field that Phrase.update(field, ...) does not name.
OtherField(field) ==
    IF field = "transcription" THEN "translation" ELSE "transcription"

\* Meta(field) in the next state.
MetaNext(field) ==
    IF field = "transcription" THEN phrase'.transcription_meta
                               ELSE phrase'.translation_meta

\* C15: nodes are append-only: no call changes a column of a node that
\* exists (id, value, author, timestamp, provenance_id, previous_id) or
\* removes it; Phrase.update of a field rebinds that field only, to a node
\* the call has just made, and leaves the reference of the other field.
C15_NodesAppendOnly ==
    [][ /\ Len(nodes') >= Len(nodes)
        /\ \A i \in 1..Len(nodes) : nodes'[i] = nodes[i]
        /\ \A field \in Fields, value \in Values :
              PhraseUpdate(field, value) =>
                  /\ MetaNext(OtherField(field)) = Meta(OtherField(field))
                  /\ \/ MetaNext(field) = Meta(field) /\ nodes' = nodes
                     \/ /\ Len(nodes') = Len(nodes) + 1
                        /\ MetaNext(field) = Len(nodes')
      ]_vars

\* Phrase.update('transcription', ...) has succeeded on a Phrase made over
\* nodes 1 and 2: its transcription is node 3, derived from node 1, and its
\* translation is still node 2.
C15_Witness ==
    /\ Len(nodes) = 3
    /\ phrase = [transcription_meta |-> 3, translation_meta |-> 2]
    /\ nodes[3].parent = 1
    /\ nodes[3].row.author_name = SetterAuthor

\* C16: no labelled word is lost: when extract_all has returned, every Cree
\* word interval with a non-blank label was exported as a word, or its
\* midpoint lies in a Cree sentence interval that was exported as a
\* sentence, whatever the label of that sentence interval.
C16_NoLabelledWordLost ==
    (WellNamed /\ xpc = "done") =>
        \A w \in 1..Len(CreeWords) :
            ~IsBlank(CreeWords[w].mark) =>
                \/ Exported(words, CreeWords[w])
                \/ LET s == SentenceOf(CreeWords[w])
                   IN  s # 0 /\ Exported(sents, CreeSentences[s])

(***************************************************************************)
(* Further claims about Recording.new (SpecAudioSeq)                       *)
(***************************************************************************)

\* C17: every Recording that Recording.new has returned, with or without a
\* fingerprint argument, carries the SHA-256 of the bytes of its input
\* file, and the blob <fingerprint>.mp4 exists.
C17_FingerprintIsContentHashWithBlob ==
    \A k \in 1..Len(recordings) :
        /\ recordings[k].fingerprint = Sha256(Bytes(recordings[k].path))
        /\ BlobExists(recordings[k].fingerprint)

====
